---- MODULE Spec2Model ----
(***************************************************************************)
(* Model of wa-tool/misc/__init__.py: the sysfs_extractor instrument       *)
(* (SysfsExtractor), the interrupts table diff (_diff_interrupt_files)     *)
(* and the tree diff (_diff_sysfs_dirs).                                   *)
(*                                                                         *)
(* A Python string is modelled as the sequence of its characters, each a   *)
(* one-character TLA+ string, so that prefix tests, splitting and joining  *)
(* are computed rather than assumed.                                       *)
(***************************************************************************)
EXTENDS Integers, Sequences, FiniteSets, TLC

VARIABLES
    \* ---- safe_extract (update_result, lines 163-183)
    tf,                 \* members of the opened tarball: <<[name, data], ...>>
    path,               \* destination directory handed to safe_extract
    pc_x,               \* "idle" | "validate" | "extract" | "done" | "error"
    member_idx,         \* number of members already validated / extracted
    host_fs,            \* host files written by extractall: {[target, data]}
    \* ---- post-check and diff loop (update_result, lines 187-196)
    device_and_host_paths,  \* self.device_and_host_paths: list of 4-tuples
    configured,         \* the list as setup built it (never changed)
    after_listing,      \* os.listdir(after_dir) is non-empty, per after_dir
    device_state,       \* per device directory: "absent" | "empty" | "nonempty"
    pc_p,               \* "idle" | "check" | "diff" | "done" | "error"
    it_idx,             \* index the running list iterator will read next
    diffed,             \* targets _diff_sysfs_dirs has been invoked on, in order
    \* ---- the instrument and its device (initialize, lines 84-97)
    is_rooted,          \* self.device.is_rooted
    use_tmpfs_param,    \* the 'use_tmpfs' parameter as configured
    use_tmpfs,          \* self.use_tmpfs: "True" | "False" | "None"
    tmpfs_mount_point,  \* self.tmpfs_mount_point (set by validate)
    tmpfs_size,         \* self.tmpfs_size
    on_device_before,   \* self.on_device_before (<<>> until initialize)
    on_device_after,    \* self.on_device_after
    dev_dirs,           \* directories that exist on the device
    dev_mounts,         \* file systems mounted on the device: {[point, size]}
    device_calls,       \* calls made on self.device, in order
    pc_i,               \* "idle" | "initialize" | "file_exists" | "mkdir" |
                        \* "mount" | "done" | "ConfigError" | "DeviceError"
    \* ---- _diff_sysfs_dirs (lines 351-386)
    n_files,            \* number of regular files found under `before`
    after_isfile,       \* os.path.isfile(afile), per file of the zip
    file_idx,           \* files the outer loop has taken so far
    pc_d,               \* "idle" | "files" | "lines" | "done" | "TypeError"
    bread,              \* lines read from bfh (current file)
    aread,              \* lines read from afh (current file)
    dfh,                \* strings written to dfh (current file), one per write
    token_calls,        \* per line diffed: the diff_tokens calls made for it
    line_end,           \* how the line loop of the current file ended
    diff_files,         \* files of the zip whose diff file has been created
    \* ---- _diff_interrupt_files (lines 309-348)
    bfh,                \* the lines of the before file
    ofh,                \* the lines of the after file
    b_pos,              \* lines the iterator of bfh has given out
    a_pos,              \* lines the iterator of ofh has given out
    cur_bchunks,        \* fields of the current before-line
    cur_aline,          \* the current after-line
    output_lines,       \* rows emitted so far
    table_rows,         \* rows handed to write_table
    pc_t,               \* "idle" | "zip" | "match" | "post" | "done" | "IndexError"
    \* ---- setup, slow_start, slow_stop, finalize (lines 99-149, 201-209)
    self_paths,         \* self.paths: the configured device paths
    handler,            \* "idle" | "setup" | "slow_start" | "slow_stop" | "finalize"
    pc_s,               \* position in the handler: "run" | "loop" | "file_exists" |
                        \* "rm" | "mkdir" | "umount" | "done" | "DeviceError"
    path_idx,           \* paths the handler's loop has gone through
    side,               \* "before" | "after": the directory setup is working on
    failed,             \* indices in device_calls of the calls that failed
    host_dirs,          \* host directories made by ensure_directory_exists
    \* ---- update_result (lines 151-196)
    pc_u,               \* "idle" | "run" | "tar" | "chmod" | "gzip" | "pull" | "open" |
                        \* "extract" | "delete_file" | "remove" | "check" | "done" |
                        \* "DeviceError" | "Exception"
    dev_archive,        \* archive files in the device's working directory:
                        \* a subset of {"sysfs.tar", "sysfs.tar.gz"}
    host_archive,       \* the pulled sysfs.tar.gz exists on the host
    steps               \* the steps update_result has carried out, in order

xvars == <<tf, path, pc_x, member_idx, host_fs>>
pvars == <<device_and_host_paths, configured, after_listing, device_state,
           pc_p, it_idx, diffed>>

ivars == <<is_rooted, use_tmpfs_param, use_tmpfs, tmpfs_mount_point, tmpfs_size,
           on_device_before, on_device_after, dev_dirs, dev_mounts,
           device_calls, pc_i>>

dvars == <<n_files, after_isfile, file_idx, pc_d, bread, aread, dfh,
           token_calls, line_end, diff_files>>

tvars == <<bfh, ofh, b_pos, a_pos, cur_bchunks, cur_aline, output_lines,
           table_rows, pc_t>>

svars == <<self_paths, handler, pc_s, path_idx, side, failed, host_dirs>>

uvars == <<pc_u, dev_archive, host_archive, steps>>

vars == <<xvars, pvars, ivars, dvars, tvars, svars, uvars>>

\* What the actions of one part leave alone: the state of the other parts.
NotX == <<pvars, ivars, dvars, tvars, svars, uvars>>
NotP == <<xvars, ivars, dvars, tvars, svars, uvars>>
NotI == <<xvars, pvars, dvars, tvars, svars, uvars>>
NotD == <<xvars, pvars, ivars, tvars, svars, uvars>>
NotT == <<xvars, pvars, ivars, dvars, svars, uvars>>
\* The lifecycle handlers work on the instrument and its device, and setup
\* builds self.device_and_host_paths.
NotS == <<xvars, dvars, tvars, uvars>>

----------------------------------------------------------------------------
(* Bounds of the model *)

MaxMembers == 3
MaxPaths == 3
MaxFiles == 3
MaxLines == 2
MaxBefore == 2
MaxAfter == 3
MaxArchive == 2

----------------------------------------------------------------------------
(* The parts of the model that a specification does not exercise stay in
   their idle state. *)

IdleX ==
    /\ tf = <<>>
    /\ path = <<>>
    /\ pc_x = "idle"
    /\ member_idx = 0
    /\ host_fs = {}

IdleP ==
    /\ device_and_host_paths = <<>>
    /\ configured = <<>>
    /\ after_listing = <<>>
    /\ device_state = <<>>
    /\ pc_p = "idle"
    /\ it_idx = 0
    /\ diffed = <<>>

IdleI ==
    /\ is_rooted = FALSE
    /\ use_tmpfs_param = "None"
    /\ use_tmpfs = "None"
    /\ tmpfs_mount_point = <<>>
    /\ tmpfs_size = <<>>
    /\ on_device_before = <<>>
    /\ on_device_after = <<>>
    /\ dev_dirs = {}
    /\ dev_mounts = {}
    /\ device_calls = <<>>
    /\ pc_i = "idle"

IdleS ==
    /\ self_paths = <<>>
    /\ handler = "idle"
    /\ pc_s = "idle"
    /\ path_idx = 0
    /\ side = "before"
    /\ failed = {}
    /\ host_dirs = {}

IdleU ==
    /\ pc_u = "idle"
    /\ dev_archive = {}
    /\ host_archive = FALSE
    /\ steps = <<>>

IdleD ==
    /\ n_files = 0
    /\ after_isfile = <<>>
    /\ file_idx = 0
    /\ pc_d = "idle"
    /\ bread = <<>>
    /\ aread = <<>>
    /\ dfh = <<>>
    /\ token_calls = <<>>
    /\ line_end = "none"
    /\ diff_files = {}

IdleT ==
    /\ bfh = <<>>
    /\ ofh = <<>>
    /\ b_pos = 0
    /\ a_pos = 0
    /\ cur_bchunks = <<>>
    /\ cur_aline = <<>>
    /\ output_lines = <<>>
    /\ table_rows = <<>>
    /\ pc_t = "idle"

----------------------------------------------------------------------------
(* Strings *)

RECURSIVE Concat(_)
\* ''.join(parts): the concatenation of a sequence of strings.
Concat(parts) ==
    IF parts = <<>> THEN <<>> ELSE Head(parts) \o Concat(Tail(parts))

RECURSIVE SplitOn(_, _)
\* s.split(sep) for a one-character separator: never empty, keeps empty pieces.
SplitOn(s, sep) ==
    IF s = <<>> THEN << <<>> >>
    ELSE IF Head(s) = sep THEN << <<>> >> \o SplitOn(Tail(s), sep)
    ELSE LET rest == SplitOn(Tail(s), sep)
         IN  << <<Head(s)>> \o Head(rest) >> \o Tail(rest)

RECURSIVE JoinWith(_, _)
\* sep.join(parts)
JoinWith(parts, sep) ==
    IF parts = <<>> THEN <<>>
    ELSE IF Len(parts) = 1 THEN Head(parts)
    ELSE Head(parts) \o <<sep>> \o JoinWith(Tail(parts), sep)

StartsWith(s, p) ==
    /\ Len(p) <= Len(s)
    /\ SubSeq(s, 1, Len(p)) = p

----------------------------------------------------------------------------
(* os.path *)

\* The host process's working directory, which os.path.abspath prepends to a
\* relative path.
Cwd == <<"/", "w">>

IsAbs(p) == p # <<>> /\ Head(p) = "/"

\* os.path.join(a, b)
PathJoin(a, b) ==
    IF IsAbs(b) THEN b
    ELSE IF a = <<>> \/ a[Len(a)] = "/" THEN a \o b
    ELSE a \o <<"/">> \o b

RECURSIVE NormComps(_, _)
\* The component loop of posixpath.normpath for a path with a leading slash:
\* '' and '.' are dropped, '..' pops the last kept component (and is dropped
\* at the root).
NormComps(comps, kept) ==
    IF comps = <<>> THEN kept
    ELSE LET c == Head(comps)
         IN  IF c = <<>> \/ c = <<".">> THEN NormComps(Tail(comps), kept)
             ELSE IF c = <<".", ".">>
                  THEN NormComps(Tail(comps),
                                 IF kept = <<>> THEN kept
                                 ELSE SubSeq(kept, 1, Len(kept) - 1))
             ELSE NormComps(Tail(comps), Append(kept, c))

\* The components of os.path.abspath(p).
AbsComps(p) ==
    NormComps(SplitOn(IF IsAbs(p) THEN p ELSE PathJoin(Cwd, p), "/"), <<>>)

\* os.path.abspath(p)
Abspath(p) == <<"/">> \o JoinWith(AbsComps(p), "/")

RECURSIVE CommonPrefix(_, _)
\* os.path.commonprefix([a, b]): the longest common prefix, character by
\* character (not component by component).
CommonPrefix(a, b) ==
    IF a = <<>> \/ b = <<>> \/ Head(a) # Head(b) THEN <<>>
    ELSE <<Head(a)>> \o CommonPrefix(Tail(a), Tail(b))

----------------------------------------------------------------------------
(* SysfsExtractor.update_result: is_within_directory / safe_extract *)

\* Payloads of archive members.
Payloads == {"p", "q"}

\* Member names an archive may hold:
\*   .   a   a/b   ../x   ../oX/f   /e
MemberNames ==
    { <<".">>,
      <<"a">>,
      <<"a", "/", "b">>,
      <<".", ".", "/", "x">>,
      <<".", ".", "/", "o", "X", "/", "f">>,
      <<"/", "e">> }

\* Values of context.output_directory:  /o   o (relative to Cwd)
OutputDirectories == { <<"/", "o">>, <<"o">> }

Members == [name : MemberNames, data : Payloads]

RECURSIVE SeqsUpTo(_, _)
\* All sequences over S of length at most n.
SeqsUpTo(S, n) ==
    IF n = 0 THEN { <<>> }
    ELSE LET shorter == SeqsUpTo(S, n - 1)
         IN  shorter \cup { Append(q, x) : q \in shorter, x \in S }

\* is_within_directory with the equality that a strict-prefix test would add.
is_within_directory_strict(directory, target) ==
    LET abs_directory == Abspath(directory)
        abs_target    == Abspath(target)
        prefix        == CommonPrefix(abs_directory, abs_target)
    IN  prefix = abs_directory /\ abs_target # abs_directory

is_within_directory(directory, target) ==
    LET abs_directory == Abspath(directory)
        abs_target    == Abspath(target)
        prefix        == CommonPrefix(abs_directory, abs_target)
    IN  prefix = abs_directory

\* Where tarfile writes a member: os.path.join(path, member.name), as the
\* file system resolves it.
TargetOf(dir, name) == Abspath(PathJoin(dir, name))

\* TarFile.extract of one member: the file at its target now holds its data.
WriteMember(fs, dir, member) ==
    LET t == TargetOf(dir, member.name)
    IN  { f \in fs : f.target # t } \cup { [target |-> t, data |-> member.data] }

InitExtract ==
    /\ IdleP
    /\ IdleI
    /\ IdleD
    /\ IdleT
    /\ IdleS
    /\ IdleU
    /\ tf \in SeqsUpTo(Members, MaxMembers)
    /\ path \in OutputDirectories
    /\ pc_x = "validate"
    /\ member_idx = 0
    /\ host_fs = {}

\* A validation loop that extracts each member as soon as it has passed.
SafeExtractCheckEager ==
    /\ pc_x = "validate"
    /\ member_idx < Len(tf)
    /\ LET member      == tf[member_idx + 1]
           member_path == PathJoin(path, member.name)
       IN  IF ~ is_within_directory(path, member_path)
           THEN /\ pc_x' = "error"
                /\ UNCHANGED <<member_idx, host_fs>>
           ELSE /\ member_idx' = member_idx + 1
                /\ host_fs' = WriteMember(host_fs, path, member)
                /\ pc_x' = pc_x
    /\ UNCHANGED <<tf, path>>
    /\ UNCHANGED NotX

\* One iteration of `for member in tar.getmembers()`: raise on a member that
\* is not within the directory, else go on to the next member.
SafeExtractCheck ==
    /\ pc_x = "validate"
    /\ member_idx < Len(tf)
    /\ LET member      == tf[member_idx + 1]
           member_path == PathJoin(path, member.name)
       IN  IF ~ is_within_directory(path, member_path)
           THEN /\ pc_x' = "error"
                /\ UNCHANGED member_idx
           ELSE /\ member_idx' = member_idx + 1
                /\ pc_x' = pc_x
    /\ UNCHANGED <<tf, path, host_fs>>
    /\ UNCHANGED NotX

\* The loop is over: tar.extractall(path, members) starts.
ExtractAllBegin ==
    /\ pc_x = "validate"
    /\ member_idx = Len(tf)
    /\ pc_x' = "extract"
    /\ member_idx' = 0
    /\ UNCHANGED <<tf, path, host_fs>>
    /\ UNCHANGED NotX

\* extractall writes the members in archive order.
ExtractMember ==
    /\ pc_x = "extract"
    /\ member_idx < Len(tf)
    /\ host_fs' = WriteMember(host_fs, path, tf[member_idx + 1])
    /\ member_idx' = member_idx + 1
    /\ UNCHANGED <<tf, path, pc_x>>
    /\ UNCHANGED NotX

ExtractAllDone ==
    /\ pc_x = "extract"
    /\ member_idx = Len(tf)
    /\ pc_x' = "done"
    /\ UNCHANGED <<tf, path, member_idx, host_fs>>
    /\ UNCHANGED NotX

NextExtract ==
    \/ SafeExtractCheck
    \/ ExtractAllBegin
    \/ ExtractMember
    \/ ExtractAllDone

SpecExtract == InitExtract /\ [][NextExtract]_vars

----------------------------------------------------------------------------
(* SysfsExtractor.setup / update_result: the post-check and the diff loop *)

DEVICE_PATH == 0
AFTER_PATH == 2

\* Values of the 'paths' parameter:  /a/x   /a/y   /b/*   /c
DevicePaths ==
    { <<"/", "a", "/", "x">>,
      <<"/", "a", "/", "y">>,
      <<"/", "b", "/", "*">>,
      <<"/", "c">> }

\* Lists of configured paths: each path is listed once.
PathLists ==
    { ps \in SeqsUpTo(DevicePaths, MaxPaths) :
        \A i, j \in DOMAIN ps : i # j => ps[i] # ps[j] }

RECURSIVE LStrip(_, _)
\* s.lstrip(ch)
LStrip(s, ch) ==
    IF s # <<>> /\ Head(s) = ch THEN LStrip(Tail(s), ch) ELSE s

RECURSIVE RStrip(_, _)
\* s.rstrip(ch)
RStrip(s, ch) ==
    IF s # <<>> /\ s[Len(s)] = ch THEN RStrip(SubSeq(s, 1, Len(s) - 1), ch)
    ELSE s

\* s.strip(ch)
Strip(s, ch) == RStrip(LStrip(s, ch), ch)

RECURSIVE RFind(_, _)
\* s.rfind(ch) + 1: the length of s up to and including its last ch, or 0.
RFind(s, ch) ==
    IF s = <<>> THEN 0
    ELSE IF s[Len(s)] = ch THEN Len(s)
    ELSE RFind(SubSeq(s, 1, Len(s) - 1), ch)

\* posixpath.dirname(p)
Dirname(p) ==
    LET head == SubSeq(p, 1, RFind(p, "/"))
    IN  IF head # <<>> /\ RStrip(head, "/") # <<>> THEN RStrip(head, "/")
        ELSE head

\* self._local_dir(directory): the directory of the path made relative.
LocalDir(directory) == Dirname(LStrip(directory, "/"))

\* One element of zip(self.paths, before_dirs, after_dirs, diff_dirs).
HostPaths(d) ==
    << d,
       <<"before", LocalDir(d)>>,
       <<"after", LocalDir(d)>>,
       <<"diff", LocalDir(d)>> >>

\* self.device_and_host_paths as setup builds it from self.paths.
ZipPaths(ps) == [k \in DOMAIN ps |-> HostPaths(ps[k])]

\* The directory the post-check asks the device about.
DevDir(paths) == Strip(paths[DEVICE_PATH + 1], "*")

\* The condition of the post-check: the after directory is empty, and the
\* device says the directory exists and lists entries in it.
PullFailed(paths) ==
    LET after_dir == paths[AFTER_PATH + 1]
        dev_dir   == DevDir(paths)
    IN  /\ ~ after_listing[after_dir]
        /\ device_state[dev_dir] # "absent"
        /\ device_state[dev_dir] = "nonempty"

RECURSIVE RemoveFirst(_, _)
\* list.remove(x): the list without its first element equal to x.
RemoveFirst(list, x) ==
    IF list = <<>> THEN <<>>
    ELSE IF Head(list) = x THEN Tail(list)
    ELSE <<Head(list)>> \o RemoveFirst(Tail(list), x)

InitPostCheck ==
    /\ IdleX
    /\ IdleI
    /\ IdleD
    /\ IdleT
    /\ IdleS
    /\ IdleU
    /\ \E ps \in PathLists :
          /\ configured = ZipPaths(ps)
          /\ device_and_host_paths = ZipPaths(ps)
    /\ after_listing \in [{ HostPaths(d)[AFTER_PATH + 1] : d \in DevicePaths } -> BOOLEAN]
    /\ device_state \in [{ DevDir(HostPaths(d)) : d \in DevicePaths }
                            -> {"absent", "empty", "nonempty"}]
    /\ pc_p = "check"
    /\ it_idx = 0
    /\ diffed = <<>>

\* One iteration of `for paths in self.device_and_host_paths`: the list
\* iterator reads the element at its index and moves on; the body removes the
\* element from the very list being iterated when the pull has failed.
PostCheckStep ==
    /\ pc_p = "check"
    /\ it_idx < Len(device_and_host_paths)
    /\ LET paths == device_and_host_paths[it_idx + 1]
       IN  device_and_host_paths' =
               IF PullFailed(paths)
               THEN RemoveFirst(device_and_host_paths, paths)
               ELSE device_and_host_paths
    /\ it_idx' = it_idx + 1
    /\ UNCHANGED <<configured, after_listing, device_state, pc_p, diffed>>
    /\ UNCHANGED NotP

\* The iterator's index has reached the end of the (possibly shortened) list.
PostCheckEnd ==
    /\ pc_p = "check"
    /\ it_idx >= Len(device_and_host_paths)
    /\ pc_p' = "diff"
    /\ it_idx' = 0
    /\ UNCHANGED <<device_and_host_paths, configured, after_listing,
                   device_state, diffed>>
    /\ UNCHANGED NotP

\* One iteration of the diff loop: _diff_sysfs_dirs is invoked on the target;
\* it returns, or raises (it does on some trees, see DiffLineRaise).
DiffLoopStep ==
    /\ pc_p = "diff"
    /\ it_idx < Len(device_and_host_paths)
    /\ diffed' = Append(diffed, device_and_host_paths[it_idx + 1])
    /\ \E raises \in BOOLEAN :
          IF raises THEN pc_p' = "error" /\ it_idx' = it_idx
          ELSE pc_p' = pc_p /\ it_idx' = it_idx + 1
    /\ UNCHANGED <<device_and_host_paths, configured, after_listing, device_state>>
    /\ UNCHANGED NotP

DiffLoopEnd ==
    /\ pc_p = "diff"
    /\ it_idx >= Len(device_and_host_paths)
    /\ pc_p' = "done"
    /\ UNCHANGED <<device_and_host_paths, configured, after_listing,
                   device_state, it_idx, diffed>>
    /\ UNCHANGED NotP

NextPostCheck ==
    \/ PostCheckStep
    \/ PostCheckEnd
    \/ DiffLoopStep
    \/ DiffLoopEnd

SpecPostCheck == InitPostCheck /\ [][NextPostCheck]_vars

----------------------------------------------------------------------------
(* SysfsExtractor.initialize *)

\* Values of the 'tmpfs_mount_point' parameter after validate:  /t   /w/temp-fs
MountPoints ==
    { <<"/", "t">>,
      <<"/", "w", "/", "t", "e", "m", "p", "-", "f", "s">> }

\* Values of the 'tmpfs_size' parameter:  32m (the default)   8m
TmpfsSizes == { <<"3", "2", "m">>, <<"8", "m">> }

\* Python truth of a use_tmpfs value: None is false.
Truthy(v) == v = "True"

\* A Python bool as a parameter value.
PyBool(b) == IF b THEN "True" ELSE "False"

\* Mode selection with 'use_tmpfs' unset always resolving to the bundled mode.
ResolveModeUnsetIsBundled(rooted, use) ==
    IF ~ rooted /\ Truthy(use) THEN "ConfigError"
    ELSE IF use = "None" THEN "True"
    ELSE use

\* Lines 85-88: the value self.use_tmpfs has after mode selection, or
\* "ConfigError" when the ConfigError is raised.
ResolveMode(rooted, use) ==
    IF ~ rooted /\ Truthy(use) THEN "ConfigError"
    ELSE IF use = "None" THEN PyBool(rooted)
    ELSE use

\* self.device.execute(command, as_root=...)
ExecuteCall(command, as_root) ==
    [op |-> "execute", command |-> command, as_root |-> as_root]

\* self.device.file_exists(filepath)
FileExistsCall(filepath) == [op |-> "file_exists", filepath |-> filepath]

InitInitialize ==
    /\ IdleX
    /\ IdleP
    /\ IdleD
    /\ IdleT
    /\ IdleS
    /\ IdleU
    /\ is_rooted \in BOOLEAN
    /\ use_tmpfs_param \in {"True", "False", "None"}
    /\ use_tmpfs = use_tmpfs_param
    /\ tmpfs_mount_point \in MountPoints
    /\ tmpfs_size \in TmpfsSizes
    /\ on_device_before = <<>>
    /\ on_device_after = <<>>
    \* the scratch directory is absent, a plain directory left behind, or
    \* still a mounted tmpfs
    /\ \E scratch \in {"absent", "directory", "mounted"} :
          /\ dev_dirs = IF scratch = "absent" THEN {} ELSE {tmpfs_mount_point}
          /\ dev_mounts = IF scratch = "mounted"
                          THEN {[point |-> tmpfs_mount_point, size |-> tmpfs_size]}
                          ELSE {}
    /\ device_calls = <<>>
    /\ pc_i = "initialize"

\* Lines 85-92: mode selection; in the bundled mode the two on-device
\* directories are named. No call on the device is made here.
InitializeMode ==
    /\ pc_i = "initialize"
    /\ LET mode == ResolveMode(is_rooted, use_tmpfs)
       IN  IF mode = "ConfigError"
           THEN /\ pc_i' = "ConfigError"
                /\ UNCHANGED <<use_tmpfs, on_device_before, on_device_after>>
           ELSE /\ use_tmpfs' = mode
                /\ IF Truthy(mode)
                   THEN /\ on_device_before' =
                              PathJoin(tmpfs_mount_point, <<"b", "e", "f", "o", "r", "e">>)
                        /\ on_device_after' =
                              PathJoin(tmpfs_mount_point, <<"a", "f", "t", "e", "r">>)
                        /\ pc_i' = "file_exists"
                   ELSE /\ UNCHANGED <<on_device_before, on_device_after>>
                        /\ pc_i' = "done"
    /\ UNCHANGED <<is_rooted, use_tmpfs_param, tmpfs_mount_point, tmpfs_size,
                   dev_dirs, dev_mounts, device_calls>>
    /\ UNCHANGED NotI

\* Line 94: self.device.file_exists(self.tmpfs_mount_point)
InitializeFileExists ==
    /\ pc_i = "file_exists"
    /\ device_calls' = Append(device_calls, FileExistsCall(tmpfs_mount_point))
    /\ pc_i' = IF tmpfs_mount_point \in dev_dirs THEN "done" ELSE "mkdir"
    /\ UNCHANGED <<is_rooted, use_tmpfs_param, use_tmpfs, tmpfs_mount_point,
                   tmpfs_size, on_device_before, on_device_after, dev_dirs,
                   dev_mounts>>
    /\ UNCHANGED NotI

\* Line 95: mkdir -p as root; a failing command raises DeviceError.
InitializeMkdir ==
    /\ pc_i = "mkdir"
    /\ device_calls' = Append(device_calls,
                              ExecuteCall(<<"mkdir -p", tmpfs_mount_point>>, TRUE))
    /\ \E ok \in BOOLEAN :
          IF ok THEN /\ dev_dirs' = dev_dirs \cup {tmpfs_mount_point}
                     /\ pc_i' = "mount"
          ELSE /\ dev_dirs' = dev_dirs
               /\ pc_i' = "DeviceError"
    /\ UNCHANGED <<is_rooted, use_tmpfs_param, use_tmpfs, tmpfs_mount_point,
                   tmpfs_size, on_device_before, on_device_after, dev_mounts>>
    /\ UNCHANGED NotI

\* Lines 96-97: mount -t tmpfs -o size={} tmpfs {} as root.
InitializeMount ==
    /\ pc_i = "mount"
    /\ device_calls' = Append(device_calls,
                              ExecuteCall(<<"mount -t tmpfs -o size=", tmpfs_size,
                                            "tmpfs", tmpfs_mount_point>>, TRUE))
    /\ \E ok \in BOOLEAN :
          IF ok THEN /\ dev_mounts' = dev_mounts \cup
                                        {[point |-> tmpfs_mount_point, size |-> tmpfs_size]}
                     /\ pc_i' = "done"
          ELSE /\ dev_mounts' = dev_mounts
               /\ pc_i' = "DeviceError"
    /\ UNCHANGED <<is_rooted, use_tmpfs_param, use_tmpfs, tmpfs_mount_point,
                   tmpfs_size, on_device_before, on_device_after, dev_dirs>>
    /\ UNCHANGED NotI

NextInitialize ==
    \/ InitializeMode
    \/ InitializeFileExists
    \/ InitializeMkdir
    \/ InitializeMount

SpecInitialize == InitInitialize /\ [][NextInitialize]_vars

----------------------------------------------------------------------------
(* _diff_sysfs_dirs *)

\* The characters that \w matches, among those the model's lines use.
WordChars == {"a", "b", "1", "2"}

\* The characters str.strip() removes.
Whitespace == {" ", "\n"}

\* Lines the before and after files may hold:
\*   "a 1\n"   "a 2\n"   "b 1\n"   " a 1 2\n"
Lines ==
    { <<"a", " ", "1", "\n">>,
      <<"a", " ", "2", "\n">>,
      <<"b", " ", "1", "\n">>,
      <<" ", "a", " ", "1", " ", "2", "\n">> }

RECURSIVE Scan(_, _, _, _)
\* The scan behind re.split: chunks holds the finished pieces, cur the piece
\* being read, in_word tells whether cur is a run of word characters.
Scan(s, chunks, cur, in_word) ==
    IF s = <<>>
    THEN IF in_word THEN Append(chunks, cur)
         ELSE Append(Append(chunks, cur), <<>>)
    ELSE IF (Head(s) \in WordChars) = in_word
         THEN Scan(Tail(s), chunks, Append(cur, Head(s)), in_word)
         ELSE Scan(Tail(s), Append(chunks, cur), <<Head(s)>>, ~ in_word)

\* re.split(r'\W+', line): the separators are not kept.
TokenizeNoCapture(line) ==
    LET all == Scan(line, <<>>, <<>>, TRUE)
    IN  [k \in 1 .. (Len(all) + 1) \div 2 |-> all[2 * k - 1]]

\* re.split(r'(\W+)', line): word pieces and the separators between them,
\* alternating, first and last piece a (possibly empty) word piece.
Tokenize(line) == Scan(line, <<>>, <<>>, TRUE)

\* c.strip() is non-empty: c has a character that is not whitespace.
HasNonWhitespace(c) == \E k \in DOMAIN c : c[k] \notin Whitespace

\* len([c for c in chunks if c.strip()])
CountNonWhitespace(chunks) ==
    Cardinality({ k \in DOMAIN chunks : HasNonWhitespace(chunks[k]) })

\* wlauto.utils.misc.diff_tokens: an unchanged token as it is, a changed one
\* with both values.
diff_tokens(before_token, after_token) ==
    IF before_token = after_token THEN after_token
    ELSE <<"[">> \o before_token \o <<" ", "-", ">", " ">> \o after_token \o <<"]">>

\* zip(bs, as)
Zip(bs, as) ==
    [k \in 1 .. (IF Len(bs) < Len(as) THEN Len(bs) ELSE Len(as)) |-> <<bs[k], as[k]>>]

\* [diff_tokens(b, a) for b, a in pairs]
DiffChunks(pairs) == [k \in DOMAIN pairs |-> diff_tokens(pairs[k][1], pairs[k][2])]

\* The mismatch marker
Marker == <<"x", "x", "x", " ">>

\* The body of the line loop with the after-line written on a mismatch.
ProcessLineAfterOnMismatch(bline, aline) ==
    LET bchunks == Tokenize(bline)
        achunks == Tokenize(aline)
    IN  IF Len(bchunks) # Len(achunks)
        THEN [text |-> Marker \o aline, calls |-> <<>>]
        ELSE [text |-> Concat(DiffChunks(Zip(bchunks, achunks))),
              calls |-> Zip(bchunks, achunks)]

\* The body of the line loop with the label heuristic applied whenever both
\* lines have two non-whitespace tokens, whether or not the labels are equal.
ProcessLineLabelUnchecked(bline, aline) ==
    LET bchunks == Tokenize(bline)
        achunks == Tokenize(aline)
    IN  IF Len(bchunks) # Len(achunks)
        THEN [text |-> Marker \o bline, calls |-> <<>>]
        ELSE IF /\ CountNonWhitespace(bchunks) = CountNonWhitespace(achunks)
                /\ CountNonWhitespace(achunks) = 2
        THEN [text |-> Concat(<<bchunks[1]>>
                              \o DiffChunks(Zip(Tail(bchunks), Tail(achunks)))),
              calls |-> Zip(Tail(bchunks), Tail(achunks))]
        ELSE [text |-> Concat(DiffChunks(Zip(bchunks, achunks))),
              calls |-> Zip(bchunks, achunks)]

\* Lines 373-386, the body of the line loop for a pair of lines: the text
\* written to dfh and the diff_tokens calls made.
ProcessLine(bline, aline) ==
    LET bchunks == Tokenize(bline)
        achunks == Tokenize(aline)
    IN  IF Len(bchunks) # Len(achunks)
        THEN [text |-> Marker \o bline, calls |-> <<>>]
        ELSE IF /\ CountNonWhitespace(bchunks) = CountNonWhitespace(achunks)
                /\ CountNonWhitespace(achunks) = 2
                /\ bchunks[1] = achunks[1]
        THEN [text |-> Concat(<<bchunks[1]>>
                              \o DiffChunks(Zip(Tail(bchunks), Tail(achunks)))),
              calls |-> Zip(Tail(bchunks), Tail(achunks))]
        ELSE [text |-> Concat(DiffChunks(Zip(bchunks, achunks))),
              calls |-> Zip(bchunks, achunks)]

InitDiffTree ==
    /\ IdleX
    /\ IdleP
    /\ IdleI
    /\ IdleT
    /\ IdleS
    /\ IdleU
    /\ n_files \in 0 .. MaxFiles
    /\ after_isfile \in [1 .. n_files -> BOOLEAN]
    /\ file_idx = 0
    /\ pc_d = "files"
    /\ bread = <<>>
    /\ aread = <<>>
    /\ dfh = <<>>
    /\ token_calls = <<>>
    /\ line_end = "none"
    /\ diff_files = {}

\* Lines 362-365: the next file has no regular file on the after side: it
\* is logged and skipped.
DiffSkipFile ==
    /\ pc_d = "files"
    /\ file_idx < n_files
    /\ ~ after_isfile[file_idx + 1]
    /\ file_idx' = file_idx + 1
    /\ bread' = <<>>
    /\ aread' = <<>>
    /\ dfh' = <<>>
    /\ token_calls' = <<>>
    /\ line_end' = "none"
    /\ UNCHANGED <<n_files, after_isfile, pc_d, diff_files>>
    /\ UNCHANGED NotD

\* Lines 367-368: both files are opened and the diff file is created (with
\* its directory).
DiffOpenFile ==
    /\ pc_d = "files"
    /\ file_idx < n_files
    /\ after_isfile[file_idx + 1]
    /\ file_idx' = file_idx + 1
    /\ diff_files' = diff_files \cup {file_idx + 1}
    /\ bread' = <<>>
    /\ aread' = <<>>
    /\ dfh' = <<>>
    /\ token_calls' = <<>>
    /\ line_end' = "none"
    /\ pc_d' = "lines"
    /\ UNCHANGED <<n_files, after_isfile>>
    /\ UNCHANGED NotD

\* One iteration of the line loop with a line on both sides.
DiffLine ==
    /\ pc_d = "lines"
    /\ Len(bread) < MaxLines
    /\ \E bline \in Lines, aline \in Lines :
          LET out == ProcessLine(bline, aline)
          IN  /\ bread' = Append(bread, bline)
              /\ aread' = Append(aread, aline)
              /\ dfh' = Append(dfh, out.text)
              /\ token_calls' = Append(token_calls, out.calls)
    /\ UNCHANGED <<n_files, after_isfile, file_idx, pc_d, line_end, diff_files>>
    /\ UNCHANGED NotD

\* The missing after-line handled like a mismatch: the before-line is written
\* with the marker before the loop is left.
DiffLineAfterShorterMarked ==
    /\ pc_d = "lines"
    /\ Len(bread) < MaxLines
    /\ \E bline \in Lines :
          /\ bread' = Append(bread, bline)
          /\ dfh' = Append(dfh, Marker \o bline)
    /\ line_end' = "after_shorter"
    /\ pc_d' = "files"
    /\ UNCHANGED <<n_files, after_isfile, file_idx, aread, token_calls,
                   diff_files>>
    /\ UNCHANGED NotD

\* Lines 370-372: izip_longest gives a before-line and None for the after
\* file: the loop is left.
DiffLineAfterShorter ==
    /\ pc_d = "lines"
    /\ Len(bread) < MaxLines
    /\ \E bline \in Lines : bread' = Append(bread, bline)
    /\ line_end' = "after_shorter"
    /\ pc_d' = "files"
    /\ UNCHANGED <<n_files, after_isfile, file_idx, aread, dfh, token_calls,
                   diff_files>>
    /\ UNCHANGED NotD

\* Line 373: izip_longest gives None for the before file and an after-line:
\* re.split(r'(\W+)', None) raises TypeError, which nothing catches.
DiffLineRaise ==
    /\ pc_d = "lines"
    /\ Len(aread) < MaxLines
    /\ \E aline \in Lines : aread' = Append(aread, aline)
    /\ line_end' = "before_shorter"
    /\ pc_d' = "TypeError"
    /\ UNCHANGED <<n_files, after_isfile, file_idx, bread, dfh, token_calls,
                   diff_files>>
    /\ UNCHANGED NotD

\* Both files are exhausted: izip_longest stops and the files are closed.
DiffEndOfFile ==
    /\ pc_d = "lines"
    /\ line_end' = "both"
    /\ pc_d' = "files"
    /\ UNCHANGED <<n_files, after_isfile, file_idx, bread, aread, dfh,
                   token_calls, diff_files>>
    /\ UNCHANGED NotD

\* The zip of the files is exhausted: _diff_sysfs_dirs returns.
DiffDone ==
    /\ pc_d = "files"
    /\ file_idx = n_files
    /\ pc_d' = "done"
    /\ UNCHANGED <<n_files, after_isfile, file_idx, bread, aread, dfh,
                   token_calls, line_end, diff_files>>
    /\ UNCHANGED NotD

NextDiffTree ==
    \/ DiffSkipFile
    \/ DiffOpenFile
    \/ DiffLine
    \/ DiffLineAfterShorter
    \/ DiffLineRaise
    \/ DiffEndOfFile
    \/ DiffDone

SpecDiffTree == InitDiffTree /\ [][NextDiffTree]_vars

----------------------------------------------------------------------------
(* _diff_interrupt_files *)

\* Lines the before and after tables may hold (none is blank):
\*   "A 1\n"   "B 2\n"   "B 3\n"   "X 9 u v w\n"
TableLines ==
    { <<"A", " ", "1", "\n">>,
      <<"B", " ", "2", "\n">>,
      <<"B", " ", "3", "\n">>,
      <<"X", " ", "9", " ", "u", " ", "v", " ", "w", "\n">> }

RECURSIVE Fields(_, _, _)
\* The scan behind str.split(): runs of whitespace separate the fields and
\* no field is empty.
Fields(s, done, cur) ==
    IF s = <<>> THEN IF cur = <<>> THEN done ELSE Append(done, cur)
    ELSE IF Head(s) \in Whitespace
         THEN Fields(Tail(s), IF cur = <<>> THEN done ELSE Append(done, cur), <<>>)
         ELSE Fields(Tail(s), done, Append(cur, Head(s)))

\* line.strip().split()
StripSplit(line) == Fields(line, <<>>, <<>>)

\* Lines 318-321: the row emitted for a before-row and an after-row of the
\* same key.
MatchedRow(bc, ac) ==
    <<<<>>, ac[1]>> \o DiffChunks(Zip(Tail(bc), Tail(ac)))

\* Line 325: the row emitted for an after-row of a new category.
InsertedRow(ac) == << <<">">> >> \o ac

\* Every row after the header cut to the header's length, the rest dropped.
MergeRowsTruncate(rows) ==
    LET num_cols == Len(rows[1])
    IN  [k \in DOMAIN rows |->
            IF k = 1 THEN rows[1]
            ELSE LET row == rows[k]
                     cut == IF Len(row) < num_cols THEN Len(row) ELSE num_cols
                 IN  Append(SubSeq(row, 1, cut), <<>>)]

\* Lines 340-345: the header row as it is, every other row cut to the
\* header's length, with the rest joined by spaces into one more field.
MergeRows(rows) ==
    LET num_cols == Len(rows[1])
    IN  [k \in DOMAIN rows |->
            IF k = 1 THEN rows[1]
            ELSE LET row == rows[k]
                     cut == IF Len(row) < num_cols THEN Len(row) ELSE num_cols
                 IN  Append(SubSeq(row, 1, cut),
                            JoinWith(SubSeq(row, cut + 1, Len(row)), " "))]

InitTable ==
    /\ IdleX
    /\ IdleP
    /\ IdleI
    /\ IdleD
    /\ IdleS
    /\ IdleU
    /\ bfh \in SeqsUpTo(TableLines, MaxBefore)
    /\ ofh \in SeqsUpTo(TableLines, MaxAfter)
    /\ b_pos = 0
    /\ a_pos = 0
    /\ cur_bchunks = <<>>
    /\ cur_aline = <<>>
    /\ output_lines = <<>>
    /\ table_rows = <<>>
    /\ pc_t = "zip"

\* Lines 313-314, one step of izip(bfh, ofh): a line is taken from bfh,
\* then one from ofh; the loop ends as soon as either has none left (a line
\* taken from bfh when ofh has none left is dropped).
TableZip ==
    /\ pc_t = "zip"
    /\ IF b_pos = Len(bfh)
       THEN /\ pc_t' = "post"
            /\ UNCHANGED <<b_pos, a_pos, cur_bchunks, cur_aline>>
       ELSE /\ b_pos' = b_pos + 1
            /\ IF a_pos = Len(ofh)
               THEN /\ pc_t' = "post"
                    /\ UNCHANGED <<a_pos, cur_bchunks, cur_aline>>
               ELSE /\ a_pos' = a_pos + 1
                    /\ cur_bchunks' = StripSplit(bfh[b_pos + 1])
                    /\ cur_aline' = ofh[a_pos + 1]
                    /\ pc_t' = "match"
    /\ UNCHANGED <<bfh, ofh, output_lines, table_rows>>
    /\ UNCHANGED NotT

\* One iteration of `while True` that emits nothing for an after-row of a
\* new category.
TableMatchSkipInserted ==
    /\ pc_t = "match"
    /\ LET achunks == StripSplit(cur_aline)
       IN  IF achunks[1] = cur_bchunks[1]
           THEN /\ output_lines' = Append(output_lines, MatchedRow(cur_bchunks, achunks))
                /\ pc_t' = "zip"
                /\ UNCHANGED <<a_pos, cur_aline>>
           ELSE /\ output_lines' = output_lines
                /\ IF a_pos < Len(ofh)
                   THEN /\ cur_aline' = ofh[a_pos + 1]
                        /\ a_pos' = a_pos + 1
                        /\ pc_t' = pc_t
                   ELSE /\ pc_t' = "zip"
                        /\ UNCHANGED <<a_pos, cur_aline>>
    /\ UNCHANGED <<bfh, ofh, b_pos, cur_bchunks, table_rows>>
    /\ UNCHANGED NotT

\* Lines 315-330, one iteration of `while True`: on equal keys the diff row
\* is emitted and the while loop is left; otherwise the after-row is emitted
\* as inserted and the next after-line is taken, the while loop being left
\* when there is none.
TableMatch ==
    /\ pc_t = "match"
    /\ LET achunks == StripSplit(cur_aline)
       IN  IF achunks[1] = cur_bchunks[1]
           THEN /\ output_lines' = Append(output_lines, MatchedRow(cur_bchunks, achunks))
                /\ pc_t' = "zip"
                /\ UNCHANGED <<a_pos, cur_aline>>
           ELSE /\ output_lines' = Append(output_lines, InsertedRow(achunks))
                /\ IF a_pos < Len(ofh)
                   THEN /\ cur_aline' = ofh[a_pos + 1]
                        /\ a_pos' = a_pos + 1
                        /\ pc_t' = pc_t
                   ELSE /\ pc_t' = "zip"
                        /\ UNCHANGED <<a_pos, cur_aline>>
    /\ UNCHANGED <<bfh, ofh, b_pos, cur_bchunks, table_rows>>
    /\ UNCHANGED NotT

\* Lines 334-348: the header gets an empty leading field, the rows are
\* merged and handed to write_table; with no row emitted, output_lines[0]
\* raises IndexError.
TablePost ==
    /\ pc_t = "post"
    /\ IF output_lines = <<>>
       THEN /\ pc_t' = "IndexError"
            /\ UNCHANGED <<output_lines, table_rows>>
       ELSE /\ output_lines' = << << <<>> >> \o output_lines[1] >> \o Tail(output_lines)
            /\ table_rows' = MergeRows(output_lines')
            /\ pc_t' = "done"
    /\ UNCHANGED <<bfh, ofh, b_pos, a_pos, cur_bchunks, cur_aline>>
    /\ UNCHANGED NotT

NextTable ==
    \/ TableZip
    \/ TableMatch
    \/ TablePost

SpecTable == InitTable /\ [][NextTable]_vars

----------------------------------------------------------------------------
(* SysfsExtractor.setup, slow_start, slow_stop and finalize, run in that
   order on the instrument as initialize left it. update_result, which runs
   between slow_stop and finalize, is a part of its own below. *)

\* Values of the 'paths' parameter:  /a/b/c   /a/x   /b/*
SetupPaths ==
    { <<"/", "a", "/", "b", "/", "c">>,
      <<"/", "a", "/", "x">>,
      <<"/", "b", "/", "*">> }

\* Lists of configured paths: each path is listed once.
SetupPathLists ==
    { ps \in SeqsUpTo(SetupPaths, MaxPaths) :
        \A i, j \in DOMAIN ps : i # j => ps[i] # ps[j] }

\* The directory a path names on the device: trailing slashes do not count.
DirKey(p) == IF RStrip(p, "/") = <<>> THEN <<"/">> ELSE RStrip(p, "/")

\* A directory and the directories above it, below the root.
PrefixDirs(p) ==
    { SubSeq(p, 1, n) : n \in { m \in 1..Len(p) : m = Len(p) \/ p[m + 1] = "/" } }

\* The device's directories after `mkdir -p p`.
MkdirP(dirs, p) == dirs \cup PrefixDirs(DirKey(p))

\* The device's directories after `rm -rf p`.
RmRf(dirs, p) ==
    { d \in dirs : ~ (d = DirKey(p) \/ StartsWith(d, DirKey(p) \o <<"/">>)) }

\* What self.device.file_exists(p) returns.
FileExists(dirs, p) == DirKey(p) \in dirs

\* Lines 116-119: the directory under `base` that mirrors the parent
\* directory of the configured path d.
OnDeviceDir(base, d) == PathJoin(base, Dirname(LStrip(d, "/")))

\* Lines 130-132 and 142-144: the destination of the copy of d under `base`.
DestDir(base, d) ==
    LET dest_dir == PathJoin(base, LStrip(d, "/"))
    IN  IF \E k \in DOMAIN dest_dir : dest_dir[k] = "*"
        THEN Dirname(dest_dir)
        ELSE dest_dir

\* self.device.execute(command, as_root=..., check_exit_code=False)
ExecuteUncheckedCall(command, as_root) ==
    [op |-> "execute", command |-> command, as_root |-> as_root,
     check_exit_code |-> FALSE]

\* self.device.pull_file(source, dest)
PullFileCall(source, dest) == [op |-> "pull_file", source |-> source, dest |-> dest]

\* Directories a previous iteration may have left under the mount point.
StaleDirs(mount_point) ==
    { PathJoin(mount_point, <<"b", "e", "f", "o", "r", "e", "/", "a", "/", "b">>),
      PathJoin(mount_point, <<"a", "f", "t", "e", "r", "/", "a">>) }

\* The directory setup is working on.
SideBase == IF side = "before" THEN on_device_before ELSE on_device_after

\* The directory the running snapshot handler copies into.
PhaseBase == IF handler = "slow_start" THEN on_device_before ELSE on_device_after

\* What the lifecycle handlers never assign.
IFixed == <<is_rooted, use_tmpfs_param, use_tmpfs, tmpfs_mount_point,
            tmpfs_size, on_device_before, on_device_after, pc_i>>
PRest == <<after_listing, device_state, pc_p, it_idx, diffed>>

\* The instrument after a completed initialize (lines 84-97): the mode is
\* resolved; in the bundled mode the mount point exists, with the tmpfs
\* mounted on it or not, and may hold directories of an earlier iteration.
InitLifecycle ==
    /\ IdleX
    /\ IdleP
    /\ IdleD
    /\ IdleT
    /\ IdleU
    /\ \E rooted \in BOOLEAN, use \in {"True", "False", "None"} :
          /\ ResolveMode(rooted, use) # "ConfigError"
          /\ is_rooted = rooted
          /\ use_tmpfs_param = use
          /\ use_tmpfs = ResolveMode(rooted, use)
    /\ tmpfs_mount_point \in MountPoints
    /\ tmpfs_size = <<"3", "2", "m">>
    /\ IF Truthy(use_tmpfs)
       THEN /\ on_device_before =
                  PathJoin(tmpfs_mount_point, <<"b", "e", "f", "o", "r", "e">>)
            /\ on_device_after =
                  PathJoin(tmpfs_mount_point, <<"a", "f", "t", "e", "r">>)
            /\ \E stale \in SUBSET StaleDirs(tmpfs_mount_point) :
                  dev_dirs = {tmpfs_mount_point}
                                \cup { d \in UNION { PrefixDirs(q) : q \in stale } :
                                         StartsWith(d, tmpfs_mount_point \o <<"/">>) }
            /\ dev_mounts \in
                  { {}, {[point |-> tmpfs_mount_point, size |-> tmpfs_size]} }
       ELSE /\ on_device_before = <<>>
            /\ on_device_after = <<>>
            /\ dev_dirs = {}
            /\ dev_mounts = {}
    /\ device_calls = <<>>
    /\ pc_i = "done"
    /\ self_paths \in SetupPathLists
    /\ handler = "setup"
    /\ pc_s = "run"
    /\ path_idx = 0
    /\ side = "before"
    /\ failed = {}
    /\ host_dirs = {}

\* The handler the framework calls after h.
HandlerAfter(h) ==
    CASE h = "setup" -> "slow_start"
      [] h = "slow_start" -> "slow_stop"
      [] h = "slow_stop" -> "finalize"

\* A handler has returned and the next one is called; device_calls and
\* failed are kept per handler.
HandlerReturns ==
    /\ pc_s = "done"
    /\ handler \in {"setup", "slow_start", "slow_stop"}
    /\ handler' = HandlerAfter(handler)
    /\ pc_s' = "run"
    /\ path_idx' = 0
    /\ side' = "before"
    /\ failed' = {}
    /\ device_calls' = <<>>
    /\ UNCHANGED <<self_paths, host_dirs, dev_dirs, dev_mounts>>
    /\ UNCHANGED <<IFixed, pvars, NotS>>

\* Lines 100-114: the host directories are made and zipped with the paths;
\* only the bundled mode goes on to the device.
SetupZip ==
    /\ handler = "setup"
    /\ pc_s = "run"
    /\ device_and_host_paths' = ZipPaths(self_paths)
    /\ configured' = ZipPaths(self_paths)
    /\ host_dirs' = { HostPaths(self_paths[k])[j] : k \in DOMAIN self_paths, j \in 2..4 }
    /\ pc_s' = IF Truthy(use_tmpfs) THEN "loop" ELSE "done"
    /\ UNCHANGED <<self_paths, handler, path_idx, side, failed>>
    /\ UNCHANGED <<dev_dirs, dev_mounts, device_calls>>
    /\ UNCHANGED <<IFixed, PRest, NotS>>

\* Line 115: `for d in self.paths` takes the next path or ends.
SetupNextPath ==
    /\ handler = "setup"
    /\ pc_s = "loop"
    /\ IF path_idx = Len(self_paths)
       THEN pc_s' = "done" /\ side' = side
       ELSE pc_s' = "file_exists" /\ side' = "before"
    /\ UNCHANGED <<self_paths, handler, path_idx, failed, host_dirs>>
    /\ UNCHANGED <<dev_dirs, dev_mounts, device_calls>>
    /\ UNCHANGED <<IFixed, pvars, NotS>>

\* Lines 120 and 123: self.device.file_exists(before_dir / after_dir).
SetupFileExists ==
    /\ handler = "setup"
    /\ pc_s = "file_exists"
    /\ LET dir == OnDeviceDir(SideBase, self_paths[path_idx + 1])
       IN  /\ device_calls' = Append(device_calls, FileExistsCall(dir))
           /\ pc_s' = IF FileExists(dev_dirs, dir) THEN "rm" ELSE "mkdir"
    /\ UNCHANGED <<self_paths, handler, path_idx, side, failed, host_dirs>>
    /\ UNCHANGED <<dev_dirs, dev_mounts>>
    /\ UNCHANGED <<IFixed, pvars, NotS>>

\* Lines 121 and 124: rm -rf as root; a failing command raises DeviceError.
SetupRm ==
    /\ handler = "setup"
    /\ pc_s = "rm"
    /\ LET dir == OnDeviceDir(SideBase, self_paths[path_idx + 1])
       IN  /\ device_calls' = Append(device_calls,
                                     ExecuteCall(<<"rm -rf ", dir>>, TRUE))
           /\ \E ok \in BOOLEAN :
                 IF ok THEN /\ dev_dirs' = RmRf(dev_dirs, dir)
                            /\ failed' = failed
                            /\ pc_s' = "mkdir"
                 ELSE /\ dev_dirs' = dev_dirs
                      /\ failed' = failed \cup {Len(device_calls) + 1}
                      /\ pc_s' = "DeviceError"
    /\ UNCHANGED <<self_paths, handler, path_idx, side, host_dirs>>
    /\ UNCHANGED dev_mounts
    /\ UNCHANGED <<IFixed, pvars, NotS>>

\* Lines 122 and 125: mkdir -p as root; after the after-directory the loop
\* goes to the next path.
SetupMkdir ==
    /\ handler = "setup"
    /\ pc_s = "mkdir"
    /\ LET dir == OnDeviceDir(SideBase, self_paths[path_idx + 1])
       IN  /\ device_calls' = Append(device_calls,
                                     ExecuteCall(<<"mkdir -p", dir>>, TRUE))
           /\ \E ok \in BOOLEAN :
                 IF ok THEN /\ dev_dirs' = MkdirP(dev_dirs, dir)
                            /\ failed' = failed
                            /\ IF side = "before"
                               THEN /\ side' = "after"
                                    /\ pc_s' = "file_exists"
                                    /\ path_idx' = path_idx
                               ELSE /\ side' = side
                                    /\ pc_s' = "loop"
                                    /\ path_idx' = path_idx + 1
                 ELSE /\ dev_dirs' = dev_dirs
                      /\ failed' = failed \cup {Len(device_calls) + 1}
                      /\ pc_s' = "DeviceError"
                      /\ UNCHANGED <<side, path_idx>>
    /\ UNCHANGED <<self_paths, handler, host_dirs>>
    /\ UNCHANGED dev_mounts
    /\ UNCHANGED <<IFixed, pvars, NotS>>

\* The copy of one path with its exit code checked: a failing copy raises
\* DeviceError.
SlowCopyChecked ==
    /\ handler \in {"slow_start", "slow_stop"}
    /\ pc_s = "run"
    /\ Truthy(use_tmpfs)
    /\ path_idx < Len(self_paths)
    /\ LET d == self_paths[path_idx + 1]
           dest_dir == DestDir(PhaseBase, d)
       IN  /\ device_calls' = Append(device_calls,
                 ExecuteUncheckedCall(<<"busybox", "cp -Hr", d, dest_dir>>, TRUE))
           /\ \E ok \in BOOLEAN :
                 /\ ok => FileExists(dev_dirs, Dirname(dest_dir))
                 /\ IF ok THEN /\ dev_dirs' = dev_dirs \cup {DirKey(dest_dir)}
                               /\ failed' = failed
                               /\ pc_s' = pc_s
                    ELSE /\ dev_dirs' = dev_dirs
                         /\ failed' = failed \cup {Len(device_calls) + 1}
                         /\ pc_s' = "DeviceError"
    /\ path_idx' = path_idx + 1
    /\ UNCHANGED <<self_paths, handler, side, host_dirs>>
    /\ UNCHANGED dev_mounts
    /\ UNCHANGED <<IFixed, pvars, NotS>>

\* Lines 129-134 and 141-146, one iteration in the bundled mode: the path is
\* copied under the before (after) directory as root, the exit code of the
\* copy being ignored. The copy can succeed only where the parent of its
\* destination exists.
SlowCopy ==
    /\ handler \in {"slow_start", "slow_stop"}
    /\ pc_s = "run"
    /\ Truthy(use_tmpfs)
    /\ path_idx < Len(self_paths)
    /\ LET d == self_paths[path_idx + 1]
           dest_dir == DestDir(PhaseBase, d)
       IN  /\ device_calls' = Append(device_calls,
                 ExecuteUncheckedCall(<<"busybox", "cp -Hr", d, dest_dir>>, TRUE))
           /\ \E ok \in BOOLEAN :
                 /\ ok => FileExists(dev_dirs, Dirname(dest_dir))
                 /\ IF ok THEN /\ dev_dirs' = dev_dirs \cup {DirKey(dest_dir)}
                               /\ failed' = failed
                    ELSE /\ dev_dirs' = dev_dirs
                         /\ failed' = failed \cup {Len(device_calls) + 1}
    /\ path_idx' = path_idx + 1
    /\ UNCHANGED <<self_paths, handler, pc_s, side, host_dirs>>
    /\ UNCHANGED dev_mounts
    /\ UNCHANGED <<IFixed, pvars, NotS>>

\* Lines 135-137 and 147-149, one iteration in the direct-pull mode: the
\* path is pulled into its host directory; a failing pull raises
\* DeviceError out of the handler.
SlowPull ==
    /\ handler \in {"slow_start", "slow_stop"}
    /\ pc_s = "run"
    /\ ~ Truthy(use_tmpfs)
    /\ path_idx < Len(device_and_host_paths)
    /\ LET paths_k == device_and_host_paths[path_idx + 1]
           dev_dir == paths_k[1]
           host_dir == IF handler = "slow_start" THEN paths_k[2] ELSE paths_k[3]
       IN  device_calls' = Append(device_calls, PullFileCall(dev_dir, host_dir))
    /\ \E ok \in BOOLEAN :
          IF ok THEN /\ failed' = failed
                     /\ pc_s' = pc_s
          ELSE /\ failed' = failed \cup {Len(device_calls) + 1}
               /\ pc_s' = "DeviceError"
    /\ path_idx' = path_idx + 1
    /\ UNCHANGED <<self_paths, handler, side, host_dirs>>
    /\ UNCHANGED <<dev_dirs, dev_mounts>>
    /\ UNCHANGED <<IFixed, pvars, NotS>>

\* The loop of slow_start or slow_stop has no path left.
SlowEnd ==
    /\ handler \in {"slow_start", "slow_stop"}
    /\ pc_s = "run"
    /\ path_idx = IF Truthy(use_tmpfs) THEN Len(self_paths)
                  ELSE Len(device_and_host_paths)
    /\ pc_s' = "done"
    /\ UNCHANGED <<self_paths, handler, path_idx, side, failed, host_dirs>>
    /\ UNCHANGED <<dev_dirs, dev_mounts, device_calls>>
    /\ UNCHANGED <<IFixed, pvars, NotS>>

\* Line 202: finalize does nothing in the direct-pull mode.
FinalizeMode ==
    /\ handler = "finalize"
    /\ pc_s = "run"
    /\ pc_s' = IF Truthy(use_tmpfs) THEN "umount" ELSE "done"
    /\ UNCHANGED <<self_paths, handler, path_idx, side, failed, host_dirs>>
    /\ UNCHANGED <<dev_dirs, dev_mounts, device_calls>>
    /\ UNCHANGED <<IFixed, pvars, NotS>>

\* The umount with no handler around it: its failure leaves finalize.
FinalizeUmountRaises ==
    /\ handler = "finalize"
    /\ pc_s = "umount"
    /\ device_calls' = Append(device_calls,
                              ExecuteCall(<<"umount", tmpfs_mount_point>>, TRUE))
    /\ \E ok \in BOOLEAN :
          /\ ok => \E m \in dev_mounts : m.point = tmpfs_mount_point
          /\ IF ok THEN /\ dev_mounts' = { m \in dev_mounts : m.point # tmpfs_mount_point }
                        /\ failed' = failed
                        /\ pc_s' = "rm"
             ELSE /\ dev_mounts' = dev_mounts
                  /\ failed' = failed \cup {Len(device_calls) + 1}
                  /\ pc_s' = "DeviceError"
    /\ UNCHANGED <<self_paths, handler, path_idx, side, host_dirs>>
    /\ UNCHANGED dev_dirs
    /\ UNCHANGED <<IFixed, pvars, NotS>>

\* Lines 203-207: umount as root; the DeviceError (CalledProcessError) of a
\* failing umount is caught and passed over. The umount can succeed only
\* where something is mounted.
FinalizeUmount ==
    /\ handler = "finalize"
    /\ pc_s = "umount"
    /\ device_calls' = Append(device_calls,
                              ExecuteCall(<<"umount", tmpfs_mount_point>>, TRUE))
    /\ \E ok \in BOOLEAN :
          /\ ok => \E m \in dev_mounts : m.point = tmpfs_mount_point
          /\ IF ok THEN /\ dev_mounts' = { m \in dev_mounts : m.point # tmpfs_mount_point }
                        /\ failed' = failed
             ELSE /\ dev_mounts' = dev_mounts
                  /\ failed' = failed \cup {Len(device_calls) + 1}
    /\ pc_s' = "rm"
    /\ UNCHANGED <<self_paths, handler, path_idx, side, host_dirs>>
    /\ UNCHANGED dev_dirs
    /\ UNCHANGED <<IFixed, pvars, NotS>>

\* Lines 208-209: rm -rf of the mount point as root, its exit code ignored.
\* The removal can succeed only where nothing is mounted; a failing one
\* leaves the directory, with or without what was in it.
FinalizeRm ==
    /\ handler = "finalize"
    /\ pc_s = "rm"
    /\ device_calls' = Append(device_calls,
                              ExecuteUncheckedCall(<<"rm -rf", tmpfs_mount_point>>, TRUE))
    /\ \E ok \in BOOLEAN :
          /\ ok => ~ \E m \in dev_mounts : m.point = tmpfs_mount_point
          /\ IF ok THEN /\ dev_dirs' = RmRf(dev_dirs, tmpfs_mount_point)
                        /\ failed' = failed
             ELSE /\ dev_dirs' \in { dev_dirs,
                                     RmRf(dev_dirs, tmpfs_mount_point)
                                        \cup (dev_dirs \cap {tmpfs_mount_point}) }
                  /\ failed' = failed \cup {Len(device_calls) + 1}
    /\ pc_s' = "done"
    /\ UNCHANGED <<self_paths, handler, path_idx, side, host_dirs>>
    /\ UNCHANGED dev_mounts
    /\ UNCHANGED <<IFixed, pvars, NotS>>

NextLifecycle ==
    \/ HandlerReturns
    \/ SetupZip
    \/ SetupNextPath
    \/ SetupFileExists
    \/ SetupRm
    \/ SetupMkdir
    \/ SlowCopy
    \/ SlowPull
    \/ SlowEnd
    \/ FinalizeMode
    \/ FinalizeUmount
    \/ FinalizeRm

SpecLifecycle == InitLifecycle /\ [][NextLifecycle]_vars

----------------------------------------------------------------------------
(* SysfsExtractor.update_result as a whole: the bundling steps, then
   safe_extract (the extraction part above), then the post-check and the diff
   loop (the post-check part above). *)

\* Members the pulled archive may hold:  a   ../x
UpdateMembers ==
    [name : { <<"a">>, <<".", ".", "/", "x">> }, data : {"p"}]

\* Values of the 'paths' parameter:  /a/x   /b/*
UpdatePaths == { <<"/", "a", "/", "x">>, <<"/", "b", "/", "*">> }

UpdatePathLists ==
    { ps \in SeqsUpTo(UpdatePaths, MaxPaths) :
        \A i, j \in DOMAIN ps : i # j => ps[i] # ps[j] }

\* The steps of the bundled mode before the post-check, in the order of
\* lines 155-185.
BundlingSteps ==
    <<"tar", "chmod", "gzip", "pull_file", "open", "delete_file", "remove">>

\* What update_result never assigns.
UFixed == <<is_rooted, use_tmpfs_param, use_tmpfs, tmpfs_mount_point,
            tmpfs_size, on_device_before, on_device_after, dev_dirs,
            dev_mounts, device_calls, pc_i>>
\* The parts update_result does not go through.
NotU == <<dvars, tvars, svars>>

\* The instrument when update_result is called: the mode is resolved, setup
\* has built the list of targets, the snapshots are taken. An earlier
\* update_result that raised may have left its archives behind.
InitUpdateResult ==
    /\ IdleX
    /\ IdleD
    /\ IdleT
    /\ IdleS
    /\ is_rooted \in BOOLEAN
    /\ use_tmpfs_param = "None"
    /\ use_tmpfs = ResolveMode(is_rooted, use_tmpfs_param)
    /\ tmpfs_mount_point \in MountPoints
    /\ tmpfs_size = <<"3", "2", "m">>
    /\ IF Truthy(use_tmpfs)
       THEN /\ on_device_before =
                  PathJoin(tmpfs_mount_point, <<"b", "e", "f", "o", "r", "e">>)
            /\ on_device_after =
                  PathJoin(tmpfs_mount_point, <<"a", "f", "t", "e", "r">>)
            /\ dev_dirs = {tmpfs_mount_point}
            /\ dev_mounts = {[point |-> tmpfs_mount_point, size |-> tmpfs_size]}
            /\ dev_archive \in { {}, {"sysfs.tar.gz"} }
            /\ host_archive \in BOOLEAN
       ELSE /\ on_device_before = <<>>
            /\ on_device_after = <<>>
            /\ dev_dirs = {}
            /\ dev_mounts = {}
            /\ dev_archive = {}
            /\ host_archive = FALSE
    /\ device_calls = <<>>
    /\ pc_i = "done"
    /\ \E ps \in UpdatePathLists :
          /\ configured = ZipPaths(ps)
          /\ device_and_host_paths = ZipPaths(ps)
    /\ after_listing \in [{ HostPaths(d)[AFTER_PATH + 1] : d \in UpdatePaths } -> BOOLEAN]
    /\ device_state \in [{ DevDir(HostPaths(d)) : d \in UpdatePaths }
                            -> {"absent", "empty", "nonempty"}]
    /\ pc_p = "idle"
    /\ it_idx = 0
    /\ diffed = <<>>
    /\ pc_u = "run"
    /\ steps = <<>>

\* Line 152: the bundling steps are for the bundled mode only; the
\* direct-pull mode goes straight to the post-check of line 187.
UpdateMode ==
    /\ pc_u = "run"
    /\ IF Truthy(use_tmpfs)
       THEN /\ pc_u' = "tar"
            /\ pc_p' = pc_p
       ELSE /\ pc_u' = "check"
            /\ pc_p' = "check"
    /\ UNCHANGED <<dev_archive, host_archive, steps>>
    /\ UNCHANGED <<device_and_host_paths, configured, after_listing,
                   device_state, it_idx, diffed>>
    /\ UNCHANGED <<xvars, UFixed, NotU>>

\* Lines 155-158: busybox tar cf <working_directory>/sysfs.tar as root; a
\* failing command raises DeviceError.
UpdateTar ==
    /\ pc_u = "tar"
    /\ steps' = Append(steps, "tar")
    /\ \E ok \in BOOLEAN :
          IF ok THEN /\ dev_archive' = dev_archive \cup {"sysfs.tar"}
                     /\ pc_u' = "chmod"
          ELSE /\ dev_archive' = dev_archive
               /\ pc_u' = "DeviceError"
    /\ UNCHANGED host_archive
    /\ UNCHANGED <<xvars, pvars, UFixed, NotU>>

\* Line 159: chmod 0777 of the tarball as root.
UpdateChmod ==
    /\ pc_u = "chmod"
    /\ steps' = Append(steps, "chmod")
    /\ \E ok \in BOOLEAN :
          pc_u' = IF ok THEN "gzip" ELSE "DeviceError"
    /\ UNCHANGED <<dev_archive, host_archive>>
    /\ UNCHANGED <<xvars, pvars, UFixed, NotU>>

\* Lines 160-161: busybox gzip -f replaces sysfs.tar by sysfs.tar.gz, an
\* existing sysfs.tar.gz being overwritten.
UpdateGzip ==
    /\ pc_u = "gzip"
    /\ steps' = Append(steps, "gzip")
    /\ \E ok \in BOOLEAN :
          IF ok THEN /\ dev_archive' = (dev_archive \ {"sysfs.tar"}) \cup {"sysfs.tar.gz"}
                     /\ pc_u' = "pull_file"
          ELSE /\ dev_archive' = dev_archive
               /\ pc_u' = "DeviceError"
    /\ UNCHANGED host_archive
    /\ UNCHANGED <<xvars, pvars, UFixed, NotU>>

\* Line 162: the compressed archive is pulled to the output directory.
UpdatePull ==
    /\ pc_u = "pull_file"
    /\ steps' = Append(steps, "pull_file")
    /\ \E ok \in BOOLEAN :
          IF ok THEN /\ host_archive' = TRUE
                     /\ pc_u' = "open"
          ELSE /\ host_archive' = host_archive
               /\ pc_u' = "DeviceError"
    /\ UNCHANGED dev_archive
    /\ UNCHANGED <<xvars, pvars, UFixed, NotU>>

\* Lines 163 and 183: tarfile.open gives the members of the pulled archive,
\* and safe_extract is called on them with the output directory.
UpdateOpen ==
    /\ pc_u = "open"
    /\ steps' = Append(steps, "open")
    /\ tf' \in SeqsUpTo(UpdateMembers, MaxArchive)
    /\ path' \in OutputDirectories
    /\ pc_x' = "validate"
    /\ member_idx' = 0
    /\ host_fs' = host_fs
    /\ pc_u' = "extract"
    /\ UNCHANGED <<dev_archive, host_archive>>
    /\ UNCHANGED <<pvars, UFixed, NotU>>

\* The deletion of the on-device archive not waiting for safe_extract to
\* return.
UpdateDeleteFileEarly ==
    /\ pc_u = "extract"
    /\ pc_x \in {"validate", "extract", "done"}
    /\ steps' = Append(steps, "delete_file")
    /\ \E ok \in BOOLEAN :
          IF ok THEN /\ dev_archive' = dev_archive \ {"sysfs.tar.gz"}
                     /\ pc_u' = "remove"
          ELSE /\ dev_archive' = dev_archive
               /\ pc_u' = "DeviceError"
    /\ UNCHANGED host_archive
    /\ UNCHANGED <<xvars, pvars, UFixed, NotU>>

\* Line 184, after safe_extract has returned and the archive is closed:
\* self.device.delete_file(on_device_tarball + ".gz").
UpdateDeleteFile ==
    /\ pc_u = "extract"
    /\ pc_x = "done"
    /\ steps' = Append(steps, "delete_file")
    /\ \E ok \in BOOLEAN :
          IF ok THEN /\ dev_archive' = dev_archive \ {"sysfs.tar.gz"}
                     /\ pc_u' = "remove"
          ELSE /\ dev_archive' = dev_archive
               /\ pc_u' = "DeviceError"
    /\ UNCHANGED host_archive
    /\ UNCHANGED <<xvars, pvars, UFixed, NotU>>

\* Line 185: os.remove(on_host_tarball); then the post-check of line 187
\* starts.
UpdateRemove ==
    /\ pc_u = "remove"
    /\ steps' = Append(steps, "remove")
    /\ host_archive' = FALSE
    /\ pc_u' = "check"
    /\ pc_p' = "check"
    /\ UNCHANGED dev_archive
    /\ UNCHANGED <<device_and_host_paths, configured, after_listing,
                   device_state, it_idx, diffed>>
    /\ UNCHANGED <<xvars, UFixed, NotU>>

\* The exception of safe_extract (line 178) or of _diff_sysfs_dirs (line
\* 196) leaves update_result.
UpdateRaises ==
    /\ \/ pc_u = "extract" /\ pc_x = "error"
       \/ pc_u = "check" /\ pc_p = "error"
    /\ pc_u' = "Exception"
    /\ UNCHANGED <<dev_archive, host_archive, steps>>
    /\ UNCHANGED <<xvars, pvars, UFixed, NotU>>

\* The diff loop is over: update_result returns.
UpdateReturns ==
    /\ pc_u = "check"
    /\ pc_p = "done"
    /\ pc_u' = "done"
    /\ UNCHANGED <<dev_archive, host_archive, steps>>
    /\ UNCHANGED <<xvars, pvars, UFixed, NotU>>

NextUpdateResult ==
    \/ UpdateMode
    \/ UpdateTar
    \/ UpdateChmod
    \/ UpdateGzip
    \/ UpdatePull
    \/ UpdateOpen
    \/ SafeExtractCheck
    \/ ExtractAllBegin
    \/ ExtractMember
    \/ ExtractAllDone
    \/ UpdateDeleteFile
    \/ UpdateRemove
    \/ PostCheckStep
    \/ PostCheckEnd
    \/ DiffLoopStep
    \/ DiffLoopEnd
    \/ UpdateRaises
    \/ UpdateReturns

SpecUpdateResult == InitUpdateResult /\ [][NextUpdateResult]_vars

----------------------------------------------------------------------------
(* The whole module: one of its parts runs, the others stay idle. *)

Init ==
    \/ InitUpdateResult
    \/ InitLifecycle
    \/ InitInitialize
    \/ InitExtract
    \/ InitPostCheck
    \/ InitDiffTree
    \/ InitTable

Next ==
    \/ NextUpdateResult
    \/ NextLifecycle
    \/ NextInitialize
    \/ NextExtract
    \/ NextPostCheck
    \/ NextDiffTree
    \/ NextTable

Spec == Init /\ [][Next]_vars

----------------------------------------------------------------------------
(* Claims about archive extraction *)

\* The member's target lies outside the destination directory: the
\* destination's path components are not a prefix of the target's.
LiesOutside(dir, name) ==
    ~ StartsWith(AbsComps(PathJoin(dir, name)), AbsComps(dir))

\* The member fails safe_extract's validation.
FailsValidation(dir, name) ==
    ~ is_within_directory(dir, PathJoin(dir, name))

\* A relative name with no '..' component.
Benign(name) ==
    /\ ~ IsAbs(name)
    /\ \A k \in DOMAIN SplitOn(name, "/") : SplitOn(name, "/")[k] # <<".", ".">>

\* destination/<member name>, with the member '.' being the destination itself.
UnderDestination(dir, name) ==
    IF name = <<".">> THEN Abspath(dir)
    ELSE Abspath(dir) \o <<"/">> \o name

\* C1: if at least one member's target lies outside the destination
\* directory, extraction writes zero files and ends with the path-traversal
\* error (it never completes).
C1_TraversalWritesNothing ==
    (\E i \in DOMAIN tf : LiesOutside(path, tf[i].name))
        => (host_fs = {} /\ pc_x # "done")

\* C6: extraction is all-or-nothing: if any member fails validation, at any
\* position of the archive, nothing is ever written and bulk extraction
\* never starts.
C6_AllOrNothing ==
    (\E i \in DOMAIN tf : FailsValidation(path, tf[i].name))
        => (host_fs = {} /\ pc_x \in {"validate", "error"})

\* C6 witness: validation failed on the middle member of three, after a
\* valid first member, and nothing has been written.
C6_Witness ==
    /\ pc_x = "error"
    /\ Len(tf) = 3
    /\ member_idx = 1
    /\ host_fs = {}

\* C7: an archive whose members all have relative, non-traversing names
\* (the member '.' included) is never rejected, and once extraction is done
\* every member is at destination/<member name> with the payload of the
\* archive's (last) member of that name.
C7_BenignArchiveExtracted ==
    (\A i \in DOMAIN tf : Benign(tf[i].name))
        => /\ pc_x # "error"
           /\ pc_x = "done" =>
                \A i \in DOMAIN tf :
                    LET last == CHOOSE j \in DOMAIN tf :
                                    /\ tf[j].name = tf[i].name
                                    /\ \A k \in DOMAIN tf :
                                          tf[k].name = tf[i].name => k <= j
                    IN  [target |-> UnderDestination(path, tf[i].name),
                         data   |-> tf[last].data] \in host_fs

\* C7 witness: a benign archive holding '.' and another member has been
\* extracted.
C7_Witness ==
    /\ pc_x = "done"
    /\ Len(tf) >= 2
    /\ \A i \in DOMAIN tf : Benign(tf[i].name)
    /\ \E i \in DOMAIN tf : tf[i].name = <<".">>
    /\ \E i \in DOMAIN tf : tf[i].name # <<".">>

----------------------------------------------------------------------------
(* Claims about the post-check *)

\* C2: once the post-check is over, no target whose pull failed is left in
\* the list of targets, the tree diff is never invoked on such a target,
\* and when update_result returns every configured target whose pull did
\* not fail has been diffed.
C2_FailedTargetsNeverDiffed ==
    /\ pc_p \in {"diff", "done", "error"} =>
          \A k \in DOMAIN device_and_host_paths :
              ~ PullFailed(device_and_host_paths[k])
    /\ \A k \in DOMAIN diffed : ~ PullFailed(diffed[k])
    /\ pc_p = "done" =>
          \A k \in DOMAIN configured :
              ~ PullFailed(configured[k]) =>
                  \E j \in DOMAIN diffed : diffed[j] = configured[k]

----------------------------------------------------------------------------
(* Claims about initialize *)

\* C5: once mode selection has run: on a device that is not rooted,
\* use_tmpfs=True ends in the configuration error with no call made on the
\* device, and use_tmpfs unset gives direct-pull mode without error; on a
\* rooted device use_tmpfs unset gives the bundled mode; an explicit False
\* always gives direct-pull mode.
C5_ModeSelection ==
    pc_i \notin {"idle", "initialize"} =>
        /\ (~ is_rooted /\ use_tmpfs_param = "True") =>
               (pc_i = "ConfigError" /\ device_calls = <<>>)
        /\ (~ is_rooted /\ use_tmpfs_param = "None") =>
               (use_tmpfs = "False" /\ pc_i = "done" /\ device_calls = <<>>)
        /\ (is_rooted /\ use_tmpfs_param = "None") =>
               (use_tmpfs = "True" /\ pc_i # "ConfigError")
        /\ use_tmpfs_param = "False" =>
               (use_tmpfs = "False" /\ pc_i = "done" /\ device_calls = <<>>)

\* C5 witness: initialize has ended in the configuration error on a device
\* that is not rooted.
C5_Witness ==
    /\ pc_i = "ConfigError"
    /\ ~ is_rooted
    /\ use_tmpfs_param = "True"

\* C13: once initialize has completed in the bundled mode, the scratch
\* mount point exists on the device and a tmpfs of the configured size is
\* mounted on it, whatever the device held before (a scratch directory left
\* behind unmounted included).
C13_MountedAfterInitialize ==
    (pc_i = "done" /\ Truthy(use_tmpfs)) =>
        /\ tmpfs_mount_point \in dev_dirs
        /\ [point |-> tmpfs_mount_point, size |-> tmpfs_size] \in dev_mounts

----------------------------------------------------------------------------
(* Claims about the tree diff *)

\* The k-th pair of lines of the current file differs in token count.
TokenCountsDiffer(k) == Len(Tokenize(bread[k])) # Len(Tokenize(aread[k]))

\* C3: the tree diff never raises, whatever the files hold, the before file
\* having fewer lines than the after file included.
C3_NeverRaises == pc_d # "TypeError"

\* C8: for every pair of lines whose token counts differ, what is written
\* for the line is the marker 'xxx ' followed by the before-line, no token of
\* the line is handed to diff_tokens, and the line loop is still running
\* right after the line.
C8_MismatchLine ==
    \A k \in DOMAIN dfh :
        TokenCountsDiffer(k) =>
            /\ dfh[k] = <<"x", "x", "x", " ">> \o bread[k]
            /\ token_calls[k] = <<>>
            /\ (k = Len(dfh) /\ line_end = "none") => pc_d = "lines"

\* C8 witness: a line pair with different token counts has been written and
\* the line after it has been processed too.
C8_Witness ==
    \E k \in DOMAIN dfh : TokenCountsDiffer(k) /\ k < Len(dfh)

\* C9: while the after file is a copy of the before file, the diff file
\* holds exactly the lines of the input, and every diff_tokens call was
\* made on two equal tokens.
C9_IdenticalFiles ==
    bread = aread =>
        /\ dfh = bread
        /\ \A k \in DOMAIN token_calls : \A c \in DOMAIN token_calls[k] :
              token_calls[k][c][1] = token_calls[k][c][2]

\* C9 witness: a file of two lines, one the label heuristic applies to and
\* one it does not, has been diffed to its end against its copy.
C9_Witness ==
    /\ line_end = "both"
    /\ bread = aread
    /\ \E k \in DOMAIN bread : CountNonWhitespace(Tokenize(bread[k])) = 2
    /\ \E k \in DOMAIN bread : CountNonWhitespace(Tokenize(bread[k])) # 2

\* C10: no diff file is created for a file that is missing on the after
\* side, and when the tree diff of a tree with such a file has ended, every
\* file that does exist on the after side has its diff file.
C10_MissingAfterFile ==
    /\ \A f \in 1 .. n_files : ~ after_isfile[f] => f \notin diff_files
    /\ (pc_d \in {"done", "TypeError"} /\ \E f \in 1 .. n_files : ~ after_isfile[f])
          => \A f \in 1 .. n_files : after_isfile[f] => f \in diff_files

\* The label heuristic applies to the k-th pair of lines.
LabelHeuristic(k) ==
    /\ CountNonWhitespace(Tokenize(bread[k])) = 2
    /\ CountNonWhitespace(Tokenize(aread[k])) = 2
    /\ Tokenize(bread[k])[1] = Tokenize(aread[k])[1]

\* C11: for every pair of lines with equal token counts, the written line is
\* the concatenation, in order, of one piece per token position: the token
\* itself where the before and after tokens are equal, the diff annotation
\* of the two tokens where they differ; with or without the label heuristic.
C11_ComparableLine ==
    \A k \in DOMAIN dfh :
        ~ TokenCountsDiffer(k) =>
            LET bs == Tokenize(bread[k])
                as == Tokenize(aread[k])
            IN  dfh[k] = Concat([p \in DOMAIN bs |->
                                    IF bs[p] = as[p] THEN bs[p]
                                    ELSE diff_tokens(bs[p], as[p])])

\* C11 witness: two lines with equal token counts and a changed token have
\* been written, the label heuristic applying to the first and not to the
\* second.
C11_Witness ==
    /\ Len(dfh) = 2
    /\ ~ TokenCountsDiffer(1) /\ ~ TokenCountsDiffer(2)
    /\ bread[1] # aread[1] /\ bread[2] # aread[2]
    /\ LabelHeuristic(1)
    /\ ~ LabelHeuristic(2)

\* C15: when the line loop ended because the after file had no line left,
\* no error was raised, one before-line more than after-lines was read, and
\* the diff file holds exactly the lines written for the pairs read before,
\* in order.
C15_AfterShorter ==
    line_end = "after_shorter" =>
        /\ pc_d \in {"files", "done"}
        /\ Len(bread) = Len(aread) + 1
        /\ Len(dfh) = Len(aread)
        /\ \A k \in DOMAIN aread : dfh[k] = ProcessLine(bread[k], aread[k]).text

\* C15 witness: the after file ran out after a first pair of lines was
\* written.
C15_Witness ==
    /\ line_end = "after_shorter"
    /\ Len(aread) >= 1
    /\ Len(dfh) = Len(aread)

----------------------------------------------------------------------------
(* Claims about the table diff *)

\* The keys of the rows of a table.
Keys(lines) == [k \in DOMAIN lines |-> StripSplit(lines[k])[1]]

RECURSIVE Keep(_, _)
\* The elements of a sequence that are in a set, in order.
Keep(seq, S) ==
    IF seq = <<>> THEN <<>>
    ELSE IF Head(seq) \in S THEN <<Head(seq)>> \o Keep(Tail(seq), S)
    ELSE Keep(Tail(seq), S)

KeySet(lines) == { Keys(lines)[k] : k \in DOMAIN lines }

\* The after table is the before table's rows, keys in the same order, plus
\* inserted rows with new keys at any position.
AfterIsBeforePlusInsertions == Keep(Keys(ofh), KeySet(bfh)) = Keys(bfh)

\* The before-row that the k-th after-row continues: as many before-rows
\* as there are after-rows with a before key up to the k-th.
BeforeRowOf(k) == bfh[Len(Keep(Keys(SubSeq(ofh, 1, k)), KeySet(bfh)))]

\* C4: when the after table is the (non-empty) before table plus inserted rows, the
\* rows emitted by the loop are one per after-row, in order: a row with a
\* before key as the empty marker, the key and the pairwise diff of the
\* other columns, an inserted row as '>' followed by its fields.
C4_OneRowPerAfterRow ==
    (pc_t = "post" /\ bfh # <<>> /\ AfterIsBeforePlusInsertions) =>
        /\ Len(output_lines) = Len(ofh)
        /\ \A k \in DOMAIN output_lines :
              LET achunks == StripSplit(ofh[k])
              IN  IF achunks[1] \in KeySet(bfh)
                  THEN output_lines[k] =
                         <<<<>>, achunks[1]>>
                         \o DiffChunks(Zip(Tail(StripSplit(BeforeRowOf(k))), Tail(achunks)))
                  ELSE output_lines[k] = << <<">">> >> \o achunks


\* The rows emitted by the loop, in order (the header without the field that
\* post-processing puts in front of it).
EmittedRows ==
    IF pc_t = "done"
    THEN <<Tail(output_lines[1])>> \o Tail(output_lines)
    ELSE output_lines

\* The k-th emitted row is a matched row.
IsMatched(k) == EmittedRows[k][1] = <<>>

\* The number of matched rows among the first k emitted rows.
MatchedUpTo(k) == Cardinality({ j \in 1..k : IsMatched(j) })

\* The loop has ended.
TableEnded == pc_t \in {"post", "done", "IndexError"}

\* C16: the emitted rows are, in order, one per row of a prefix of the after
\* table (the k-th emitted row is made from the k-th after-row: an inserted
\* row from it alone, the j-th matched row from it and the j-th
\* before-row, so that a before-row has at most one matched row); and when
\* the loop ended with the after table used up on an inserted row, no error
\* is raised, every after-row has its row, and the matched rows are fewer
\* than the before-rows (the current and the later before-rows have none).
C16_Cursors ==
    /\ Len(EmittedRows) <= Len(ofh)
    /\ \A k \in DOMAIN EmittedRows :
          IF IsMatched(k)
          THEN /\ MatchedUpTo(k) <= Len(bfh)
               /\ EmittedRows[k] = MatchedRow(StripSplit(bfh[MatchedUpTo(k)]),
                                              StripSplit(ofh[k]))
          ELSE EmittedRows[k] = InsertedRow(StripSplit(ofh[k]))
    /\ (/\ TableEnded
        /\ EmittedRows # <<>>
        /\ ~ IsMatched(Len(EmittedRows)))
       => /\ pc_t # "IndexError"
          /\ Len(EmittedRows) = Len(ofh)
          /\ MatchedUpTo(Len(EmittedRows)) < Len(bfh)

\* C16 witness: the table was written after a matched row, and the after
\* table ran out on an inserted row while the second before-row was
\* unmatched.
C16_Witness ==
    /\ pc_t = "done"
    /\ Len(bfh) = 2
    /\ Len(EmittedRows) >= 2
    /\ IsMatched(1)
    /\ ~ IsMatched(Len(EmittedRows))
    /\ MatchedUpTo(Len(EmittedRows)) = 1

\* The first row the loop emits, from the first rows of the two tables.
FirstRow ==
    IF Keys(ofh)[1] = Keys(bfh)[1]
    THEN MatchedRow(StripSplit(bfh[1]), StripSplit(ofh[1]))
    ELSE InsertedRow(StripSplit(ofh[1]))

\* C17: in the table that is written, the header is the first emitted row
\* with one empty field in front, and every later row with more fields than
\* the header keeps its first fields, as many as the header has, and ends
\* with one field that is its other fields, in order, joined by single
\* spaces.
C17_PostProcessing ==
    pc_t = "done" =>
        /\ Len(table_rows) = Len(output_lines)
        /\ table_rows[1] = << <<>> >> \o FirstRow
        /\ \A k \in 2..Len(table_rows) :
              LET row == EmittedRows[k]
                  n == Len(FirstRow) + 1
              IN  Len(row) > n =>
                    /\ Len(table_rows[k]) = n + 1
                    /\ \A p \in 1..n : table_rows[k][p] = row[p]
                    /\ table_rows[k][n + 1] =
                          JoinWith(SubSeq(row, n + 1, Len(row)), " ")

\* C17 witness: a table was written with a row that has two fields more
\* than the header.
C17_Witness ==
    /\ pc_t = "done"
    /\ \E k \in 2..Len(table_rows) :
          /\ Len(EmittedRows[k]) = Len(table_rows[1]) + 2
          /\ Len(table_rows[k][Len(table_rows[1]) + 1]) = 3


----------------------------------------------------------------------------
(* Claims about setup, slow_start, slow_stop and finalize *)

\* C12: once setup has completed in the bundled mode, for every configured
\* path the directory mirroring its parent directory exists under the
\* on-device before directory and under the on-device after directory,
\* whatever the list of paths and its order.
C12_ParentDirsMirrored ==
    (handler = "setup" /\ pc_s = "done" /\ Truthy(use_tmpfs)) =>
        \A k \in DOMAIN self_paths :
            /\ FileExists(dev_dirs, OnDeviceDir(on_device_before, self_paths[k]))
            /\ FileExists(dev_dirs, OnDeviceDir(on_device_after, self_paths[k]))

\* C14: finalize never ends in an error; in the bundled mode it issues the
\* umount of the mount point and then the rm -rf of it, whether or not the
\* umount failed, and it is done after them whether or not the removal
\* failed; in the direct-pull mode it makes no call on the device.
C14_Teardown ==
    handler = "finalize" =>
        /\ pc_s # "DeviceError"
        /\ pc_s \in {"run", "umount"} => device_calls = <<>>
        /\ pc_s = "rm" =>
              device_calls = << ExecuteCall(<<"umount", tmpfs_mount_point>>, TRUE) >>
        /\ pc_s = "done" =>
              device_calls =
                  IF Truthy(use_tmpfs)
                  THEN << ExecuteCall(<<"umount", tmpfs_mount_point>>, TRUE),
                          ExecuteUncheckedCall(<<"rm -rf", tmpfs_mount_point>>, TRUE) >>
                  ELSE <<>>

\* C14 witness: finalize is done in the bundled mode after a failed umount
\* and a failed removal.
C14_Witness ==
    /\ handler = "finalize"
    /\ pc_s = "done"
    /\ Truthy(use_tmpfs)
    /\ failed = {1, 2}
    /\ Len(device_calls) = 2

\* C19: in slow_start and slow_stop, in the bundled mode the copies issued
\* are those of the configured paths, in order, one per path gone through
\* whether or not earlier copies failed, no error is raised and the handler
\* ends with every path copied; in the direct-pull mode the pulls issued
\* are those of the targets in order, and a failed pull is the last call of
\* the handler, which ends in the DeviceError.
C19_PerPathPolicy ==
    handler \in {"slow_start", "slow_stop"} =>
        /\ Len(device_calls) = path_idx
        /\ IF Truthy(use_tmpfs)
           THEN /\ pc_s # "DeviceError"
                /\ \A k \in DOMAIN device_calls :
                      device_calls[k] =
                          ExecuteUncheckedCall(
                              <<"busybox", "cp -Hr", self_paths[k],
                                DestDir(PhaseBase, self_paths[k])>>, TRUE)
                /\ pc_s = "done" => Len(device_calls) = Len(self_paths)
           ELSE /\ \A k \in DOMAIN device_calls :
                      device_calls[k] =
                          PullFileCall(self_paths[k],
                                       HostPaths(self_paths[k])[
                                           IF handler = "slow_start" THEN 2 ELSE 3])
                /\ failed # {} <=> pc_s = "DeviceError"
                /\ failed \subseteq {Len(device_calls)}
                /\ pc_s = "done" => Len(device_calls) = Len(self_paths)

\* C19 witness: a snapshot handler is done in the bundled mode with the
\* first copy failed and the copies of two later paths issued.
C19_Witness ==
    /\ handler \in {"slow_start", "slow_stop"}
    /\ pc_s = "done"
    /\ Truthy(use_tmpfs)
    /\ 1 \in failed
    /\ Len(device_calls) = 3


----------------------------------------------------------------------------
(* Claims about update_result as a whole *)

\* The steps logged so far are the first steps of the bundling order.
StepsInOrder ==
    /\ Len(steps) <= Len(BundlingSteps)
    /\ steps = SubSeq(BundlingSteps, 1, Len(steps))

\* C18: in the bundled mode the steps come in the order tar, chmod, gzip,
\* one pull, extraction, deletion of the on-device archive, removal of the
\* host archive, post-check, tree diffs: the steps logged are a prefix of
\* that order, extraction runs only between the pull and the deletion, the
\* post-check starts only after the removal, and a tree diff only after the
\* post-check and the extraction are over; when update_result has returned,
\* neither sysfs.tar.gz on the device nor the host archive exists. In the
\* direct-pull mode none of these steps is taken and nothing is extracted.
C18_BundlingOrder ==
    pc_u # "idle" =>
        IF Truthy(use_tmpfs)
        THEN /\ StepsInOrder
             /\ pc_x \in {"validate", "extract", "error"} =>
                    /\ steps = SubSeq(BundlingSteps, 1, 5)
                    /\ host_archive
                    /\ "sysfs.tar.gz" \in dev_archive
             /\ (\E k \in DOMAIN steps : steps[k] = "delete_file") => pc_x = "done"
             /\ pc_p # "idle" =>
                    /\ steps = BundlingSteps
                    /\ pc_x = "done"
             /\ diffed # <<>> => pc_p \in {"diff", "done", "error"}
             /\ pc_u = "done" =>
                    /\ steps = BundlingSteps
                    /\ pc_p = "done"
                    /\ "sysfs.tar.gz" \notin dev_archive
                    /\ ~ host_archive
        ELSE /\ steps = <<>>
             /\ pc_x = "idle"
             /\ host_fs = {}
             /\ dev_archive = {}
             /\ ~ host_archive
             /\ diffed # <<>> => pc_p \in {"diff", "done", "error"}

\* C18 witness: update_result has returned in the bundled mode after all
\* the bundling steps, with a member extracted and a target diffed.
C18_Witness ==
    /\ pc_u = "done"
    /\ Truthy(use_tmpfs)
    /\ steps = BundlingSteps
    /\ host_fs # {}
    /\ diffed # <<>>
    /\ dev_archive = {}

====
